---- MODULE Spec2Model ----
(***************************************************************************)
(* Attendance ledger of dev-camera-pi-3: AttendanceTracker                 *)
(* (src/attendance_tracker.py).  The workbook file holds one sheet per     *)
(* user and month; each sheet has one pre-filled row per day of the month  *)
(* and a summary block.  Threads call record_event / check_in_out /        *)
(* get_user_status; every load-modify-save section runs under              *)
(* self._excel_lock and is therefore one atomic step here.                 *)
(*                                                                         *)
(* Cell values.  A time cell holds the '%H:%M:%S' string, modelled as the  *)
(* tuple <<h, m, s>>; a duration cell holds 'Xh Ym' (<<x, y>>) or 'Ym'     *)
(* (<<y>>); an empty cell ('' or None, both falsy in Python) is <<>>.      *)
(* The Status cell holds "LATE", "ON TIME" or "" (empty).                  *)
(***************************************************************************)
EXTENDS Integers, Sequences, FiniteSets, TLC

\* ---------------------------------------------------------------- bounds
\* Days of the (single) month that is modelled; calendar.monthrange gives
\* 28..31 in the program.
DaysInMonth == 2

\* The instants of a day at which datetime.now() is read, as
\* <<seconds since midnight, 1 when the microsecond part is non-zero>>:
\* 08:15:00, 08:30:00, 08:30:00.5, 17:00:20, 17:40:00.
Instants ==
  << <<29700, 0>>, <<30600, 0>>, <<30600, 1>>, <<61220, 0>>, <<63600, 0>> >>

\* The threads of the process that call into the tracker (the camera loop
\* and a second caller such as a restarted camera loop or a request thread).
Threads == {1, 2}

\* Names are split at '_' into their parts: "Ann" is <<"Ann">>.
Names == { <<"Ann">>, <<"Bob">> }

Events == {"CHECK_IN", "CHECK_OUT", "ACCESS_GRANTED"}

\* Calls a thread makes in the runs that follow the lock scopes.
MaxCalls == 2

\* AttendanceTracker instances of the process; each has its own lock.
Trackers == {1, 2}

\* The environments that are explored: who is seen by the camera, up to
\* which day of the month the clock runs, and at which of the Instants the
\* clock is read.  One user is followed through the days of the month at
\* every instant; two users share the first day at three instants.
Scenarios ==
  { [users |-> { <<"Ann">> }, lastDay |-> DaysInMonth, ticks |-> DOMAIN Instants],
    [users |-> Names, lastDay |-> 1, ticks |-> {1, 4, 5}] }

\* With several threads: two threads and one user on the first day at three
\* instants; one thread whose calls may span the midnights of the month.
ThreadScenarios ==
  { [users |-> { <<"Ann">> }, lastDay |-> 1, ticks |-> {1, 4, 5}, threads |-> Threads],
    [users |-> { <<"Ann">> }, lastDay |-> DaysInMonth, ticks |-> {4}, threads |-> {1}] }

\* ------------------------------------------------------ program constants
\* "08:30:00" and "17:00:00" as seconds since midnight ("08:00:00" is the
\* cutoff of the LCD rendering in web_app.py); seconds per minute,
\* minutes per hour, seconds per day (timedelta.seconds wraps at a day).
WebCutoffSeconds == 28800
CutoffSeconds == 30600
OtCutoffSeconds == 61200
SecPerMin == 60
MinPerHour == 60
SecPerHour == 3600
SecPerDay == 86400

NoValue == <<>>

\* Python truthiness of a cell value: None and '' are falsy.
Truthy(v) == v # NoValue

\* ------------------------------------------------------------ time values
\* now.strftime('%H:%M:%S'): the microseconds are dropped.
strftime_HMS(now) ==
  << now.sec \div SecPerHour, (now.sec % SecPerHour) \div SecPerMin, now.sec % SecPerMin >>

\* datetime.strptime(s, "%H:%M:%S") as seconds since midnight.
strptime_HMS(s) == s[1] * SecPerHour + s[2] * SecPerMin + s[3]

\* f"{hours}h {minutes}m" of a timedelta: hours = seconds // 3600,
\* minutes = (seconds % 3600) // 60, where timedelta.seconds is taken
\* modulo one day.
total_str(in_s, out_s) ==
  LET seconds == (out_s - in_s) % SecPerDay
  IN  << seconds \div SecPerHour, (seconds % SecPerHour) \div SecPerMin >>

\* The late / OT text: minutes = int(total_seconds // 60), shown as
\* 'Xh Ym' when X > 0 and as 'Ym' otherwise.
minutes_str(total_seconds) ==
  LET mins == total_seconds \div SecPerMin
      h == mins \div MinPerHour
      m == mins % MinPerHour
  IN  IF h > 0 THEN <<h, m>> ELSE <<m>>

parse_time_to_minutes(s) ==
  IF Len(s) = 2 THEN s[1] * MinPerHour + s[2]
  ELSE IF Len(s) = 1 THEN s[1]
  ELSE 0

format_time_from_minutes(minutes) ==
  IF minutes = 0 THEN <<0>>
  ELSE IF minutes \div MinPerHour > 0
       THEN << minutes \div MinPerHour, minutes % MinPerHour >>
       ELSE << minutes % MinPerHour >>

\* ------------------------------------------------------------- the ledger
\* One pre-filled row of a user sheet: [date_str, day_name, '', '', '', '',
\* '', ''] (the weekday name is rendering only and is left out).
empty_row(d) ==
  [ date |-> d, first |-> NoValue, last |-> NoValue, total |-> NoValue,
    status |-> "", late |-> NoValue, ot |-> NoValue ]

\* The summary block as _get_or_create_user_sheet writes it: a COUNTA
\* formula for the working days, the string '0' for the other counts and
\* '0h 0m' for the three durations.
initial_summary ==
  [ days |-> <<"formula", 0>>, hours |-> <<0, 0>>,
    daysLate |-> <<"str", 0>>, lateTime |-> <<0, 0>>,
    otDays |-> <<"str", 0>>, otTime |-> <<0, 0>> ]

\* Faulty variant of new_sheet: range(1, days_in_month), the last day of
\* the month has no row.
new_sheet_short ==
  [ rows |-> [d \in 1..(DaysInMonth - 1) |-> empty_row(d)], summary |-> initial_summary ]

new_sheet ==
  [ rows |-> [d \in 1..DaysInMonth |-> empty_row(d)], summary |-> initial_summary ]

\* f"{name}_{month_year}" is the sheet name; the sheets of the modelled
\* month are keyed by the name's parts.  get_user_status recovers the user
\* as sheet_name.split('_')[0].
sheet_owner(sheet_name) == << Head(sheet_name) >>

\* Faulty variant of get_or_create_user_sheet: no `if sheet_name in
\* wb.sheetnames`, the sheet is made anew on every call.
get_or_create_user_sheet_anew(wb, name) ==
  [k \in DOMAIN wb \cup {name} |-> IF k = name THEN new_sheet ELSE wb[k]]

\* _get_or_create_user_sheet on a loaded workbook.
get_or_create_user_sheet(wb, name) ==
  IF name \in DOMAIN wb THEN wb
  ELSE [k \in DOMAIN wb \cup {name} |-> IF k = name THEN new_sheet ELSE wb[k]]

\* The row scan of record_event: the first row whose date cell is
\* date_str, 0 when there is none.
find_row(ws, date) ==
  LET hits == {r \in DOMAIN ws.rows : ws.rows[r].date = date}
  IN  IF hits = {} THEN 0 ELSE CHOOSE r \in hits : \A q \in hits : r <= q

\* Faulty variant of after_time: `>=` in place of `>`.
after_time_inclusive(now, cutoff) == now.sec >= cutoff

\* now.time() > cutoff, with the microseconds of now.
after_time(now, cutoff) == now.sec > cutoff \/ (now.sec = cutoff /\ now.us > 0)

\* Faulty variant of check_in_row: the `only if empty` guard is missing,
\* every check-in stamps First In again.
check_in_row_overwrite(row, now) ==
  LET stamped ==
        IF now.sec > CutoffSeconds \/ (now.sec = CutoffSeconds /\ now.us > 0)
        THEN [row EXCEPT !.first = strftime_HMS(now), !.status = "LATE",
                         !.late = minutes_str(now.sec - CutoffSeconds)]
        ELSE [row EXCEPT !.first = strftime_HMS(now), !.status = "ON TIME",
                         !.late = <<0>>]
  IN  IF Truthy(row.last)
      THEN [stamped EXCEPT !.last = NoValue, !.total = NoValue, !.ot = NoValue]
      ELSE stamped

\* Faulty variant of check_in_row: a check-in on a checked-out day leaves
\* Last Out and Total in place.
check_in_row_keep_checkout(row, now) ==
  IF ~Truthy(row.first)
  THEN IF now.sec > CutoffSeconds \/ (now.sec = CutoffSeconds /\ now.us > 0)
       THEN [row EXCEPT !.first = strftime_HMS(now), !.status = "LATE",
                        !.late = minutes_str(now.sec - CutoffSeconds)]
       ELSE [row EXCEPT !.first = strftime_HMS(now), !.status = "ON TIME",
                        !.late = <<0>>]
  ELSE row

\* Faulty variant of check_in_row: a repeated check-in of a user who is in
\* computes the punctuality again from the new time.
check_in_row_restamp(row, now) ==
  IF ~Truthy(row.first) \/ ~Truthy(row.last)
  THEN IF now.sec > CutoffSeconds \/ (now.sec = CutoffSeconds /\ now.us > 0)
       THEN [row EXCEPT !.first = IF Truthy(row.first) THEN row.first
                                  ELSE strftime_HMS(now),
                        !.status = "LATE",
                        !.late = minutes_str(now.sec - CutoffSeconds)]
       ELSE [row EXCEPT !.first = IF Truthy(row.first) THEN row.first
                                  ELSE strftime_HMS(now),
                        !.status = "ON TIME", !.late = <<0>>]
  ELSE [row EXCEPT !.last = NoValue, !.total = NoValue, !.ot = NoValue]

\* Faulty variant of check_in_row: a check-in on a checked-out day clears
\* Last Out and leaves Total and OT in place.
check_in_row_keep_total(row, now) ==
  IF ~Truthy(row.first)
  THEN IF now.sec > CutoffSeconds \/ (now.sec = CutoffSeconds /\ now.us > 0)
       THEN [row EXCEPT !.first = strftime_HMS(now), !.status = "LATE",
                        !.late = minutes_str(now.sec - CutoffSeconds)]
       ELSE [row EXCEPT !.first = strftime_HMS(now), !.status = "ON TIME",
                        !.late = <<0>>]
  ELSE [row EXCEPT !.last = NoValue]

\* The CHECK_IN branch on today's row.
check_in_row(row, now) ==
  IF ~Truthy(row.first)
  THEN IF after_time(now, CutoffSeconds)
       THEN [row EXCEPT !.first = strftime_HMS(now), !.status = "LATE",
                        !.late = minutes_str(now.sec - CutoffSeconds)]
       ELSE [row EXCEPT !.first = strftime_HMS(now), !.status = "ON TIME",
                        !.late = <<0>>]
  ELSE IF Truthy(row.last)
       THEN [row EXCEPT !.last = NoValue, !.total = NoValue, !.ot = NoValue]
       ELSE row

\* Faulty variant of overtime_str: the overtime is counted from the
\* punctuality cutoff.
overtime_str_wrong_cutoff(now) ==
  IF now.sec > OtCutoffSeconds \/ (now.sec = OtCutoffSeconds /\ now.us > 0)
  THEN minutes_str(now.sec - CutoffSeconds)
  ELSE <<0>>

\* The overtime text of a check-out at now.
overtime_str(now) ==
  IF after_time(now, OtCutoffSeconds)
  THEN minutes_str(now.sec - OtCutoffSeconds)
  ELSE <<0>>

\* Faulty variant of check_out_row: the first check-out of the day is
\* kept.
check_out_row_keep_first(row, now) ==
  IF Truthy(row.last) THEN row
  ELSE [row EXCEPT !.last = strftime_HMS(now),
                   !.total = total_str(strptime_HMS(row.first),
                                       strptime_HMS(strftime_HMS(now))),
                   !.ot = IF now.sec > OtCutoffSeconds
                          THEN minutes_str(now.sec - OtCutoffSeconds) ELSE <<0>>]

\* The CHECK_OUT branch on a row that has a check-in.
check_out_row(row, now) ==
  [row EXCEPT !.last = strftime_HMS(now),
              !.total = total_str(strptime_HMS(row.first),
                                  strptime_HMS(strftime_HMS(now))),
              !.ot = overtime_str(now)]

\* Faulty variant of record_event_locked: a check-out without a check-in
\* is not refused, Last Out is written and the workbook saved.
record_event_locked_no_refusal(wb, name, event, now) ==
  LET wb1 == get_or_create_user_sheet(wb, name)
      r == find_row(wb1[name], now.day)
      row == wb1[name].rows[r]
  IN  IF r = 0 THEN [wb |-> wb, saved |-> FALSE]
      ELSE IF event = "CHECK_IN"
        THEN [wb |-> [wb1 EXCEPT ![name].rows[r] = check_in_row(row, now)],
              saved |-> TRUE]
      ELSE IF event = "CHECK_OUT"
        THEN IF ~Truthy(row.first)
             THEN [wb |-> [wb1 EXCEPT ![name].rows[r].last = strftime_HMS(now)],
                   saved |-> TRUE]
             ELSE [wb |-> [wb1 EXCEPT ![name].rows[r] = check_out_row(row, now)],
                   saved |-> TRUE]
      ELSE [wb |-> wb1, saved |-> TRUE]

\* The locked section of record_event: load, get or create the sheet,
\* find today's row, apply the event.  saved tells whether wb.save was
\* reached; wb is then the saved workbook.
record_event_locked(wb, name, event, now) ==
  LET wb1 == get_or_create_user_sheet(wb, name)
      r == find_row(wb1[name], now.day)
      row == wb1[name].rows[r]
  IN  IF r = 0 THEN [wb |-> wb, saved |-> FALSE]
      ELSE IF event = "CHECK_IN"
        THEN [wb |-> [wb1 EXCEPT ![name].rows[r] = check_in_row(row, now)],
              saved |-> TRUE]
      ELSE IF event = "CHECK_OUT"
        THEN IF ~Truthy(row.first)
             THEN [wb |-> wb, saved |-> FALSE]
             ELSE [wb |-> [wb1 EXCEPT ![name].rows[r] = check_out_row(row, now)],
                   saved |-> TRUE]
      ELSE [wb |-> wb1, saved |-> TRUE]

\* ------------------------------------------------------- monthly summary
RECURSIVE sum_upto(_, _)
sum_upto(f, n) == IF n = 0 THEN 0 ELSE f[n] + sum_upto(f, n - 1)

\* Faulty variant of counts_as: `if time_late:` alone, a day with '0m' is
\* counted.
counts_zero_too(row_value) == Truthy(row_value)

\* `if time_late and time_late != '0m'`
counts_as(row_value) == Truthy(row_value) /\ row_value # <<0>>

\* The statistics loop and the six summary cells of update_monthly_summary.
summary_of(rows) ==
  LET n == DaysInMonth
      worked == [d \in 1..n |-> IF Truthy(rows[d].first) THEN 1 ELSE 0]
      hours == [d \in 1..n |-> IF Truthy(rows[d].total)
                               THEN parse_time_to_minutes(rows[d].total) ELSE 0]
      lateDay == [d \in 1..n |-> IF counts_as(rows[d].late) THEN 1 ELSE 0]
      lateMin == [d \in 1..n |-> IF counts_as(rows[d].late)
                                 THEN parse_time_to_minutes(rows[d].late) ELSE 0]
      otDay == [d \in 1..n |-> IF counts_as(rows[d].ot) THEN 1 ELSE 0]
      otMin == [d \in 1..n |-> IF counts_as(rows[d].ot)
                               THEN parse_time_to_minutes(rows[d].ot) ELSE 0]
  IN  [ days |-> <<"int", sum_upto(worked, n)>>,
        hours |-> format_time_from_minutes(sum_upto(hours, n)),
        daysLate |-> <<"int", sum_upto(lateDay, n)>>,
        lateTime |-> format_time_from_minutes(sum_upto(lateMin, n)),
        otDays |-> <<"int", sum_upto(otDay, n)>>,
        otTime |-> format_time_from_minutes(sum_upto(otMin, n)) ]

\* Faulty variant of update_monthly_summary: the day count is added to the
\* count already in the cell.
update_monthly_summary_accumulate(wb, name) ==
  IF name \notin DOMAIN wb THEN wb
  ELSE [wb EXCEPT ![name].summary =
         [summary_of(wb[name].rows) EXCEPT
            !.days = <<"int", wb[name].summary.days[2]
                              + summary_of(wb[name].rows).days[2]>>]]

\* Faulty variant of update_monthly_summary: the cells are computed and the
\* workbook is not saved.
update_monthly_summary_unsaved(wb, name) == wb

\* update_monthly_summary on the loaded workbook: nothing when the user
\* has no sheet for the month.
update_monthly_summary(wb, name) ==
  IF name \notin DOMAIN wb THEN wb
  ELSE [wb EXCEPT ![name].summary = summary_of(wb[name].rows)]

\* ------------------------------------------------------------- read path
\* The entry get_user_status builds from today's row of a sheet.
status_entry(row, clock_now) ==
  [ status |-> IF Truthy(row.last) THEN "OUT" ELSE "IN",
    last_event |-> IF Truthy(row.last) THEN "CHECK_OUT" ELSE "CHECK_IN",
    check_in_time |-> row.first,
    check_out_time |-> row.last,
    duration |-> row.total,
    first_check_in |-> row.first,
    is_overtime |-> Truthy(row.first) /\ ~Truthy(row.last)
                    /\ after_time(clock_now, OtCutoffSeconds),
    time_ot |-> IF Truthy(row.ot) THEN row.ot ELSE <<0>> ]

\* get_user_status: one entry per sheet that has a row for today, keyed by
\* the name recovered from the sheet name.
get_user_status(wb, clock_now) ==
  LET has(k) == find_row(wb[k], clock_now.day) # 0
      owners == { sheet_owner(k) : k \in {j \in DOMAIN wb : has(j)} }
      sheet_of(o) == CHOOSE k \in DOMAIN wb : has(k) /\ sheet_owner(k) = o
  IN  [ o \in owners |->
          status_entry(wb[sheet_of(o)].rows[find_row(wb[sheet_of(o)], clock_now.day)],
                       clock_now) ]

\* The LATE / ON TIME line SystemState.update_lcd draws for an entry of
\* get_user_status: nothing without a first check-in, else the time is
\* parsed and compared with a cutoff of "08:00:00".
update_lcd_status(status_info) ==
  IF ~Truthy(status_info.first_check_in) THEN ""
  ELSE IF strptime_HMS(status_info.first_check_in) > WebCutoffSeconds
  THEN "LATE" ELSE "ON TIME"

\* get_today_attendance: for every sheet but 'Template' that has a row for
\* today, a record with 'Name' (the sheet name up to '_'), 'Date', 'Day',
\* 'Time In', 'Time Out', 'Total', 'Status', 'Time Late' and 'Time OT';
\* empty cells become '' and an empty Time Late or Time OT becomes '0m'.
\* The records are indexed by their sheet.
get_today_attendance(wb, clock_now) ==
  LET has(k) == find_row(wb[k], clock_now.day) # 0
      today_row(k) == wb[k].rows[find_row(wb[k], clock_now.day)]
  IN  [ k \in {j \in DOMAIN wb : has(j)} |->
          [ Name |-> sheet_owner(k),
            Date |-> today_row(k).date,
            TimeIn |-> today_row(k).first,
            TimeOut |-> today_row(k).last,
            Total |-> today_row(k).total,
            Status |-> today_row(k).status,
            TimeLate |-> IF Truthy(today_row(k).late) THEN today_row(k).late ELSE <<0>>,
            TimeOT |-> IF Truthy(today_row(k).ot) THEN today_row(k).ot ELSE <<0>> ] ]

\* The keys of a record of get_today_attendance.
RecordKeys ==
  {"Name", "Date", "Day", "Time In", "Time Out", "Total", "Status", "Time Late", "Time OT"}

\* get_attendance_summary: the counters start at zero and the loop over the
\* records of get_today_attendance begins with `event = record['Event']`,
\* outside any try: KeyError when the record has no such key.
get_attendance_summary(records) ==
  IF DOMAIN records # {} /\ "Event" \notin RecordKeys
  THEN [ raised |-> TRUE, summary |-> <<>> ]
  ELSE [ raised |-> FALSE,
         summary |-> [ total_checkins |-> 0, total_checkouts |-> 0,
                       total_access_granted |-> 0, total_access_denied |-> 0,
                       unique_people |-> 0 ] ]

\* Whether `open(self.attendance_file, 'r')` and csv.DictReader yield rows
\* with a 'Date' column.  The attendance file is attendance.xlsx: a zip
\* archive written by openpyxl, the remains of one, or absent; read as
\* text it raises FileNotFoundError, UnicodeDecodeError or KeyError('Date').
csv_readable(kind) ==
  kind \notin {"workbook", "partial", "invalid", "garbage", "absent"}

\* export_report: the rows of the attendance file read as CSV, kept when
\* their 'Date' is within the bounds (0 stands for None), are written to
\* the output file.  An exception of the read is caught and printed before
\* the output file is opened.
export_report(kind, wb, start_date, end_date) ==
  IF ~csv_readable(kind)
  THEN [ written |-> FALSE, rows |-> {} ]
  ELSE [ written |-> TRUE,
         rows |-> { <<k, r>> \in { <<j, q>> \in (DOMAIN wb) \X (1..DaysInMonth) :
                                     q \in DOMAIN wb[j].rows } :
                      /\ ~(start_date # 0 /\ wb[k].rows[r].date < start_date)
                      /\ ~(end_date # 0 /\ wb[k].rows[r].date > end_date) } ]

\* user_status.get(name, {}).get('status', 'NONE')
current_status_of(user_status, name) ==
  IF name \in DOMAIN user_status THEN user_status[name].status ELSE "NONE"

\* ------------------------------------------------------ identity registry
\* _generate_user_id: "USR" + the first 8 hex digits of the MD5 of the
\* name, a fixed function of the name.
generate_user_id(name) == <<"USR">> \o name

RECURSIVE append_user_ids(_, _)
append_user_ids(rows, names) ==
  IF names = {} THEN rows
  ELSE LET n == CHOOSE x \in names : TRUE
       IN  append_user_ids(Append(rows, <<n, generate_user_id(n)>>), names \ {n})

\* ------------------------------------------------------------------ state
VARIABLES
  file,           \* the saved workbook: sheet key -> sheet
  clock,          \* [day, i]: day of the month and index into Instants
  last_checkin,   \* self.last_checkin: name -> datetime of the last check-in
  user_ids,       \* self.user_ids: name -> id
  user_ids_file,  \* the rows appended to user_ids.csv
  frame,          \* per thread: the call it is in and its locals
  last,           \* the call that has just returned to a single caller
  scenario,       \* the environment (users, lastDay, ticks, threads), fixed from the start
  disk,           \* what attendance.xlsx is on disk: "workbook" (then file holds
                  \* its user sheets), "absent", "garbage", "invalid" or "partial"
  others,         \* the sheets of the workbook that are not user sheets
  quarantine,     \* the contents renamed to attendance_corrupt_<ts>.xlsx
  proc,           \* the process: [state, found, renamed]
  lock,           \* per tracker instance: the thread inside `with self._excel_lock`, 0 if none
  mem,            \* per tracker instance: [last_checkin, user_ids]
  task,           \* per thread: the operation it is in, at the grain of lock scopes
  serial,         \* the workbook of the same calls made one after another
  images,         \* the names that have a directory of face images (config.IMAGES_DIR)
  export          \* the output file of export_report: [written, rows], and the
                  \* date bounds of the call that was made last

storeVars == <<disk, others, quarantine, proc, lock, mem, task, serial, images, export>>

vars == <<file, clock, last_checkin, user_ids, user_ids_file, frame, last, scenario,
          disk, others, quarantine, proc, lock, mem, task, serial, images, export>>

NoTime == [day |-> 0, sec |-> 0, us |-> 0]

IdleFrame ==
  [ pc |-> "idle", op |-> "", name |-> <<>>, event |-> "", now |-> NoTime,
    before |-> empty_row(0), wrote |-> FALSE,
    current_status |-> "", ret |-> "" ]

\* datetime.now()
Now == [day |-> clock.day, sec |-> Instants[clock.i][1], us |-> Instants[clock.i][2]]

\* Today's DayRecord of a name in a workbook; the pre-filled empty row when
\* the sheet does not exist yet.
day_record(wb, name, day) ==
  IF name \in DOMAIN wb /\ find_row(wb[name], day) # 0
  THEN wb[name].rows[find_row(wb[name], day)]
  ELSE empty_row(day)

\* A workbook as load_workbook returns it: the user sheets and the names of
\* the other sheets.
NoSnap == [sheets |-> [k \in {} |-> new_sheet], others |-> {}]

\* No export_report call yet, no output file.
NoExport == [written |-> FALSE, rows |-> {}, start_date |-> 0, end_date |-> 0]

IdleTask ==
  [ pc |-> "idle", sec |-> "", name |-> <<>>, event |-> "", now |-> NoTime,
    snap |-> NoSnap, pend |-> NoSnap, calls |-> 0, ret |-> "", cause |-> "" ]

NoMemory == [last_checkin |-> [k \in {} |-> NoTime], user_ids |-> [k \in {} |-> <<>>]]

\* The store as the specifications of one tracker see it: the workbook is
\* on disk, the process is up, no thread is inside a lock scope.
StoreAtRest ==
  /\ disk = "workbook"
  /\ others = {}
  /\ quarantine = {}
  /\ proc = [state |-> "up", found |-> "absent", renamed |-> FALSE]
  /\ lock = [i \in Trackers |-> 0]
  /\ mem = [i \in Trackers |-> NoMemory]
  /\ task = [t \in Threads |-> IdleTask]
  /\ serial = [k \in {} |-> new_sheet]

\* A new tracker on a new data directory: a workbook without user sheets,
\* an empty user id file, no cooldown entries; the people the camera can
\* name have been enrolled, each has a directory of face images.
InitTracker ==
  /\ file = [k \in {} |-> new_sheet]
  /\ clock = [day |-> 1, i |-> 1]
  /\ last_checkin = [k \in {} |-> NoTime]
  /\ user_ids = [k \in {} |-> <<>>]
  /\ user_ids_file = <<>>
  /\ frame = [t \in Threads |-> IdleFrame]
  /\ last = IdleFrame
  /\ images = Names
  /\ export = NoExport

InitSeq == InitTracker /\ StoreAtRest /\ scenario \in Scenarios

Init == InitTracker /\ StoreAtRest /\ scenario \in ThreadScenarios

\* The tracker's state as one value: the saved workbook, the cooldown map,
\* the id map and the rows of the id file.
World ==
  [ file |-> file, last_checkin |-> last_checkin,
    user_ids |-> user_ids, user_ids_file |-> user_ids_file ]

SetWorld(w) ==
  /\ file' = w.file
  /\ last_checkin' = w.last_checkin
  /\ user_ids' = w.user_ids
  /\ user_ids_file' = w.user_ids_file

\* _get_or_create_user_id for a set of names: the in-memory map and the
\* rows appended to the side file.
get_or_create_user_ids(w, names) ==
  LET new_ids == names \ DOMAIN w.user_ids
  IN  [w EXCEPT
        !.user_ids = [n \in DOMAIN w.user_ids \cup new_ids |->
                        IF n \in DOMAIN w.user_ids THEN w.user_ids[n]
                        ELSE generate_user_id(n)],
        !.user_ids_file = append_user_ids(w.user_ids_file, new_ids)]

\* The `with self._excel_lock` section of record_event, from load_workbook
\* to wb.save or the refusing return.  A sheet that is created resolves
\* the user's id, also when the workbook is not saved afterwards.
record_event_section(w, name, event, now) ==
  LET res == record_event_locked(w.file, name, event, now)
      w1 == get_or_create_user_ids(w, {name} \ DOMAIN w.file)
  IN  [ w |-> [w1 EXCEPT !.file = IF res.saved THEN res.wb ELSE w.file],
        saved |-> res.saved ]

\* After the save: update_monthly_summary (its own locked section) and the
\* cooldown entry of CHECK_IN and ACCESS_GRANTED.
record_event_after(w, name, event, now) ==
  [w EXCEPT
    !.file = update_monthly_summary(w.file, name),
    !.last_checkin =
       IF event \in {"CHECK_IN", "ACCESS_GRANTED"}
       THEN [n \in DOMAIN w.last_checkin \cup {name} |->
               IF n = name THEN now ELSE w.last_checkin[n]]
       ELSE w.last_checkin]

\* record_event(name, event) as a whole: the new state and the returned
\* boolean.
record_event(w, name, event, now) ==
  LET a == record_event_section(w, name, event, now)
  IN  IF a.saved
      THEN [w |-> record_event_after(a.w, name, event, now), wrote |-> TRUE]
      ELSE [w |-> a.w, wrote |-> FALSE]

\* The toggle decision of check_in_out on the status map.
toggle_event(user_status, name) ==
  IF name \in DOMAIN user_status /\ user_status[name].status = "IN"
  THEN "CHECK_OUT" ELSE "CHECK_IN"

\* check_in_out after record_event returned: 'SUCCESS' when the event was
\* refused; otherwise log_status_to_file (which resolves the id of every
\* name of the status map), create_monthly_report after a check-out, and
\* the result text.  create_monthly_report saves only inside its loop over
\* the rows of the active sheet whose second column is a date of the
\* month; in this layout that column holds the weekday, so nothing is
\* saved.  status_log.csv and debug_log.csv are only ever appended to and
\* never read; they are not part of the state.
check_in_out_finish(w, event, wrote, now) ==
  [ w |-> IF wrote
          THEN get_or_create_user_ids(w, DOMAIN get_user_status(w.file, now))
          ELSE w,
    ret |-> IF ~wrote THEN "SUCCESS"
            ELSE IF event = "CHECK_OUT" THEN "CHECKED OUT" ELSE "CHECKED IN" ]

\* check_in_out(name) as a whole.
check_in_out(w, name, now) ==
  LET event == toggle_event(get_user_status(w.file, now), name)
      r == record_event(w, name, event, now)
      fin == check_in_out_finish(r.w, event, r.wrote, now)
  IN  [ w |-> fin.w, event |-> event, wrote |-> r.wrote, ret |-> fin.ret ]

\* manual_checkout(name) as a whole: when the status map says IN, the
\* result of record_event is dropped, log_status_to_file and
\* create_monthly_report follow and 'CHECKED OUT' is returned; otherwise
\* nothing is recorded.
manual_checkout(w, name, now) ==
  LET user_status == get_user_status(w.file, now)
  IN  IF name \in DOMAIN user_status /\ user_status[name].status = "IN"
      THEN LET r == record_event(w, name, "CHECK_OUT", now)
           IN  [ w |-> get_or_create_user_ids(r.w, DOMAIN get_user_status(r.w.file, now)),
                 called |-> TRUE, wrote |-> r.wrote, ret |-> "CHECKED OUT" ]
      ELSE [ w |-> w, called |-> FALSE, wrote |-> FALSE, ret |-> "NOT CHECKED IN" ]

\* Time passes: the next instant of the day.
Tick ==
  /\ \E i \in scenario.ticks :
       /\ i > clock.i
       /\ \A j \in scenario.ticks : j > clock.i => i <= j
       /\ clock' = [clock EXCEPT !.i = i]
  /\ last' = IdleFrame
  /\ UNCHANGED <<file, last_checkin, user_ids, user_ids_file, frame, scenario>>
  /\ UNCHANGED storeVars

\* Midnight: the next day of the month begins.
NewDay ==
  /\ clock.day < scenario.lastDay
  /\ clock' = [day |-> clock.day + 1, i |-> 1]
  /\ last' = IdleFrame
  /\ UNCHANGED <<file, last_checkin, user_ids, user_ids_file, frame, scenario>>
  /\ UNCHANGED storeVars

\* ------------------------------------------------- one caller at a time
\* record_event(name, event) called and returned.
RecordEvent(name, event) ==
  \E r \in {record_event(World, name, event, Now)} :
      /\ SetWorld(r.w)
      /\ last' = [IdleFrame EXCEPT
           !.pc = "returned", !.op = "record_event", !.name = name,
           !.event = event, !.now = Now,
           !.before = day_record(file, name, clock.day), !.wrote = r.wrote]
      /\ UNCHANGED <<clock, frame, scenario>>
      /\ UNCHANGED storeVars

\* check_in_out(name) called and returned.
CheckInOut(name) ==
  \E user_status \in {get_user_status(file, Now)},
     r \in {check_in_out(World, name, Now)} :
      /\ SetWorld(r.w)
      /\ last' = [IdleFrame EXCEPT
           !.pc = "returned", !.op = "check_in_out", !.name = name,
           !.event = r.event, !.now = Now,
           !.current_status = current_status_of(user_status, name),
           !.before = day_record(file, name, clock.day),
           !.wrote = r.wrote, !.ret = r.ret]
      /\ UNCHANGED <<clock, frame, scenario>>
      /\ UNCHANGED storeVars

\* manual_checkout(name) called and returned; "declined" when it returned
\* without calling record_event.
ManualCheckout(name) ==
  \E user_status \in {get_user_status(file, Now)},
     r \in {manual_checkout(World, name, Now)} :
      /\ SetWorld(r.w)
      /\ last' = [IdleFrame EXCEPT
           !.pc = IF r.called THEN "returned" ELSE "declined",
           !.op = "manual_checkout", !.name = name,
           !.event = IF r.called THEN "CHECK_OUT" ELSE "", !.now = Now,
           !.current_status = current_status_of(user_status, name),
           !.before = day_record(file, name, clock.day),
           !.wrote = r.wrote, !.ret = r.ret]
      /\ UNCHANGED <<clock, frame, scenario>>
      /\ UNCHANGED storeVars

NextSeq ==
  \/ Tick
  \/ NewDay
  \/ \E name \in scenario.users, event \in Events : RecordEvent(name, event)
  \/ \E name \in scenario.users : CheckInOut(name)

\* One caller: each call returns before the next one begins.
SpecSeq == InitSeq /\ [][NextSeq]_vars

\* The delete-user operation of the consoles (api_delete_user in
\* web_app.py, delete_user in app.py), called and returned: the user's
\* image directory is removed with shutil.rmtree and the recognizer is
\* trained again on the directories that are left.  The tracker is not
\* called.
DeleteUser(name) ==
  /\ name \in images
  /\ images' = images \ {name}
  /\ last' = [IdleFrame EXCEPT !.pc = "returned", !.op = "delete_user",
                               !.name = name, !.now = Now]
  /\ UNCHANGED <<file, clock, last_checkin, user_ids, user_ids_file, frame, scenario>>
  /\ UNCHANGED <<disk, others, quarantine, proc, lock, mem, task, serial, export>>

NextAdmin == NextSeq \/ \E name \in scenario.users : DeleteUser(name)

\* One caller and an administrator who removes users.
SpecAdmin == InitSeq /\ [][NextAdmin]_vars

\* export_report(output_file, start_date, end_date) called and returned:
\* the output file is written when the read succeeded.
ExportReport(start_date, end_date) ==
  \E r \in {export_report(disk, file, start_date, end_date)} :
    /\ export' = [ written |-> IF r.written THEN TRUE ELSE export.written,
                   rows |-> IF r.written THEN r.rows ELSE export.rows,
                   start_date |-> start_date, end_date |-> end_date ]
    /\ last' = [IdleFrame EXCEPT !.pc = "returned", !.op = "export_report",
                                 !.now = Now]
    /\ UNCHANGED <<file, clock, last_checkin, user_ids, user_ids_file, frame, scenario>>
    /\ UNCHANGED <<disk, others, quarantine, proc, lock, mem, task, serial, images>>

\* get_attendance_summary() called; it returns the summary or raises.
AttendanceSummary ==
  \E r \in {get_attendance_summary(get_today_attendance(file, Now))} :
    /\ last' = [IdleFrame EXCEPT !.pc = "returned", !.op = "get_attendance_summary",
                                 !.now = Now,
                                 !.ret = IF r.raised THEN "raised" ELSE "summary"]
    /\ UNCHANGED <<file, clock, last_checkin, user_ids, user_ids_file, frame, scenario>>
    /\ UNCHANGED storeVars

NextReports ==
  \/ NextSeq
  \/ \E start_date, end_date \in 0..DaysInMonth : ExportReport(start_date, end_date)
  \/ AttendanceSummary

\* The environments of the reports: one user followed through the days of
\* the month at a morning and an evening instant.
ReportScenarios ==
  { [users |-> { <<"Ann">> }, lastDay |-> DaysInMonth, ticks |-> {1, 4}] }

InitReports == InitTracker /\ StoreAtRest /\ scenario \in ReportScenarios

\* One caller who also asks for the summary of the day and the export
\* (main.py --summary and --export).
SpecReports == InitReports /\ [][NextReports]_vars

\* The environment of names that contain '_': "Ann" and "Ann_Lee" through
\* the days of the month at a morning instant.
NameScenarios ==
  { [users |-> { <<"Ann">>, <<"Ann", "Lee">> }, lastDay |-> DaysInMonth, ticks |-> {1}],
    [users |-> { <<"Ann", "Lee">> }, lastDay |-> 1, ticks |-> {1, 4}] }

InitNames == InitTracker /\ StoreAtRest /\ scenario \in NameScenarios

\* One caller, two people whose names agree up to the first '_'.
SpecNames == InitNames /\ [][NextSeq]_vars

NextManual == NextSeq \/ \E name \in scenario.users : ManualCheckout(name)

\* One caller that also uses manual_checkout.
SpecManual == InitSeq /\ [][NextManual]_vars

\* ------------------------------------------------------ several threads
\* record_event(name, event) is entered: now = datetime.now() is read
\* before the lock is taken.
RecordEventCall(t, name, event) ==
  /\ frame[t].pc = "idle"
  /\ frame' = [frame EXCEPT ![t] =
       [IdleFrame EXCEPT !.pc = "re_lock", !.op = "record_event",
                         !.name = name, !.event = event, !.now = Now]]
  /\ UNCHANGED <<file, clock, last_checkin, user_ids, user_ids_file, last, scenario>>
  /\ UNCHANGED storeVars

\* check_in_out(name): the status query under the lock and the toggle
\* decision.
CheckInOutCall(t, name) ==
  /\ frame[t].pc = "idle"
  /\ LET user_status == get_user_status(file, Now)
     IN  frame' = [frame EXCEPT ![t] =
           [IdleFrame EXCEPT !.pc = "cio_record", !.op = "check_in_out",
                             !.name = name,
                             !.event = toggle_event(user_status, name),
                             !.current_status = current_status_of(user_status, name)]]
  /\ UNCHANGED <<file, clock, last_checkin, user_ids, user_ids_file, last, scenario>>
  /\ UNCHANGED storeVars

\* check_in_out enters record_event, which reads now.
CheckInOutRecord(t) ==
  /\ frame[t].pc = "cio_record"
  /\ frame' = [frame EXCEPT ![t].pc = "re_lock", ![t].now = Now]
  /\ UNCHANGED <<file, clock, last_checkin, user_ids, user_ids_file, last, scenario>>
  /\ UNCHANGED storeVars

\* A thread runs the locked section of record_event.
RecordEventLocked(t) ==
  /\ frame[t].pc = "re_lock"
  /\ \E f \in {frame[t]} :
     \E a \in {record_event_section(World, f.name, f.event, f.now)} :
         /\ SetWorld(a.w)
         /\ frame' = [frame EXCEPT
              ![t].pc = IF a.saved THEN "re_summary" ELSE "re_return",
              ![t].wrote = FALSE]
  /\ UNCHANGED <<clock, last, scenario>>
  /\ UNCHANGED storeVars

\* A thread runs the summary update and the cooldown update; record_event
\* returns True.
RecordEventSummary(t) ==
  /\ frame[t].pc = "re_summary"
  /\ LET f == frame[t]
     IN  /\ SetWorld(record_event_after(World, f.name, f.event, f.now))
         /\ frame' = [frame EXCEPT ![t].pc = "re_return", ![t].wrote = TRUE]
  /\ UNCHANGED <<clock, last, scenario>>
  /\ UNCHANGED storeVars

\* A thread finishes check_in_out after record_event returned.
CheckInOutFinish(t) ==
  /\ frame[t].pc = "re_return"
  /\ frame[t].op = "check_in_out"
  /\ \E f \in {frame[t]} :
     \E fin \in {check_in_out_finish(World, f.event, f.wrote, Now)} :
         /\ SetWorld(fin.w)
         /\ frame' = [frame EXCEPT ![t].pc = "done", ![t].ret = fin.ret]
  /\ UNCHANGED <<clock, last, scenario>>
  /\ UNCHANGED storeVars

\* The call returns to its caller.
Return(t) ==
  /\ \/ frame[t].pc = "done"
     \/ frame[t].pc = "re_return" /\ frame[t].op = "record_event"
  /\ frame' = [frame EXCEPT ![t] = IdleFrame]
  /\ UNCHANGED <<file, clock, last_checkin, user_ids, user_ids_file, last, scenario>>
  /\ UNCHANGED storeVars

ThreadStep(t) ==
  \/ \E name \in scenario.users, event \in Events : RecordEventCall(t, name, event)
  \/ \E name \in scenario.users : CheckInOutCall(t, name)
  \/ CheckInOutRecord(t)
  \/ RecordEventLocked(t)
  \/ RecordEventSummary(t)
  \/ CheckInOutFinish(t)
  \/ Return(t)

Next == Tick \/ NewDay \/ \E t \in scenario.threads : ThreadStep(t)

\* Several threads share the tracker.
Spec == Init /\ [][Next]_vars

\* ------------------------------------------------- the store, lock scopes
\* The same operations at the grain of their lock scopes and of the file
\* on disk.  Each operation is a sequence of sections (sec); a section runs
\* acquire -> load -> modify -> commit.  wb.save writes the workbook in
\* place: the file is opened for writing (truncated) and then filled, so
\* between the two steps the file on disk is "partial".
\*
\*   record     record_event, `with self._excel_lock` (lines 460-555)
\*   summary    update_monthly_summary called by record_event (line 558)
\*   report     create_monthly_report
\*   status     get_user_status / get_today_attendance
\*   directory  update_user_directory
\*
\* The environments: per thread the user it records, the tracker
\* instance it calls and the operations it calls, whether saves may
\* fail, whether the process may be stopped, the rows of the active sheet
\* in the old daily layout (name, date, ...; no operation writes them), the
\* instants of the day at which the clock is read, and what is at the path of attendance.xlsx when the process first starts.
StoreScenarios ==
  { [threads |-> Threads, user |-> <<(<<"Ann">>), (<<"Bob">>)>>, tracker |-> <<1, 1>>,
     ops |-> <<{"record"}, {"record", "status"}>>, faults |-> FALSE, crash |-> FALSE,
     daily |-> {}, ticks |-> {1, 5}, disk0 |-> "absent"],
    [threads |-> Threads, user |-> <<(<<"Ann">>), (<<"Bob">>)>>, tracker |-> <<1, 2>>,
     ops |-> <<{"record"}, {"directory"}>>, faults |-> FALSE, crash |-> FALSE,
     daily |-> {}, ticks |-> {1}, disk0 |-> "workbook"],
    [threads |-> Threads, user |-> <<(<<"Ann">>), (<<"Ann">>)>>, tracker |-> <<1, 1>>,
     ops |-> <<{"record"}, {"report"}>>, faults |-> FALSE, crash |-> FALSE,
     daily |-> { <<"Ann">> }, ticks |-> {1}, disk0 |-> "workbook"],
    [threads |-> {1}, user |-> <<(<<"Ann">>), (<<"Ann">>)>>, tracker |-> <<1, 1>>,
     ops |-> <<{"record", "status", "directory", "report"}, {}>>, faults |-> TRUE,
     crash |-> FALSE, daily |-> {}, ticks |-> {1, 5}, disk0 |-> "garbage"],
    [threads |-> {1}, user |-> <<(<<"Ann">>), (<<"Ann">>)>>, tracker |-> <<1, 1>>,
     ops |-> <<{"record"}, {}>>, faults |-> FALSE, crash |-> TRUE,
     daily |-> {}, ticks |-> {1}, disk0 |-> "invalid"],
    [threads |-> {1}, user |-> <<(<<"Ann">>), (<<"Ann">>)>>, tracker |-> <<1, 1>>,
     ops |-> <<{"record", "directory"}, {}>>, faults |-> FALSE, crash |-> TRUE,
     daily |-> {}, ticks |-> {1, 5}, disk0 |-> "workbook"] }

\* load_workbook succeeds on a workbook only: FileNotFoundError when the
\* file is absent, BadZipFile when it is not a zip archive ("garbage", or
\* "partial" after an interrupted save), another exception (KeyError, ...)
\* when it is an archive that holds no workbook ("invalid").
Loadable(kind) == kind = "workbook"
RaisesBadZipFile(kind) == kind \in {"garbage", "partial"}

\* Faulty variant of load_user_ids: self.user_ids[row[0]] = row[0], the id
\* is taken from the name column.
load_user_ids_wrong_column(rows) ==
  [ n \in { rows[k][1] : k \in DOMAIN rows } |-> n ]

\* _load_user_ids: the rows of user_ids.csv as a map.
load_user_ids(rows) ==
  [ n \in { rows[k][1] : k \in DOMAIN rows } |->
      rows[CHOOSE k \in DOMAIN rows : rows[k][1] = n][2] ]

\* The rows that _load_today_checkins reads, wb.active from its second row
\* on, as (first, second, third cell).  The active sheet is the first one:
\* the daily sheet of a ledger in the old layout (name, date, time in),
\* else 'User Directory' once update_user_directory has inserted it at
\* index 0 (its header row, then number, name, user id), else the hidden
\* 'Template', which has a header row only.  A date cell is <<"date", d>>.
active_sheet_rows(sheet_names, ids_rows, daily) ==
  IF daily # {}
  THEN { <<n, <<"date", 1>>, strftime_HMS([sec |-> Instants[1][1]])>> : n \in daily }
  ELSE IF "User Directory" \in sheet_names
  THEN { <<(<<"#">>), (<<"Name">>), (<<"User ID">>)>> }
       \cup { <<(<<"int", k>>), ids_rows[k][1], ids_rows[k][2]>> : k \in DOMAIN ids_rows }
  ELSE {}

\* _load_today_checkins: last_checkin from the rows whose second cell is
\* today's date and whose first and third cells are set, the latest time
\* per name.
load_today_checkins(rows, today) ==
  LET hits == {r \in rows : r[2] = <<"date", today>> /\ Truthy(r[1]) /\ Truthy(r[3])}
  IN  [ n \in {r[1] : r \in hits} |->
          LET r == CHOOSE x \in hits :
                     /\ x[1] = n
                     /\ \A y \in hits :
                          y[1] = n => strptime_HMS(y[3]) <= strptime_HMS(x[3])
          IN  [day |-> today, sec |-> strptime_HMS(r[3]), us |-> 0] ]

\* __init__, the part that creates or recovers attendance.xlsx, given what
\* is at the path and whether os.rename and the save of the new workbook
\* succeed.  Only BadZipFile is handled; a failed rename is logged and the
\* new workbook is then saved over the corrupt file; _create_attendance_file
\* swallows its own exceptions.
open_store(kind, rename_ok, create_ok) ==
  IF kind = "absent"
  THEN [ state |-> "up", disk |-> IF create_ok THEN "workbook" ELSE "absent",
         renamed |-> FALSE, created |-> create_ok ]
  ELSE IF Loadable(kind)
  THEN [ state |-> "up", disk |-> kind, renamed |-> FALSE, created |-> FALSE ]
  ELSE IF RaisesBadZipFile(kind)
  THEN [ state |-> "up",
         disk |-> IF create_ok THEN "workbook"
                  ELSE IF rename_ok THEN "absent" ELSE kind,
         renamed |-> rename_ok, created |-> create_ok ]
  ELSE [ state |-> "failed", disk |-> kind, renamed |-> FALSE, created |-> FALSE ]

\* Faulty variant of lock_free: no lock at all, a scope is entered whoever
\* is inside.
lock_ignored(l, i) == TRUE

\* The guard of `with self._excel_lock` on entry: threading.Lock of the
\* instance is free.
lock_free(l, i) == l[i] = 0

\* Faulty variant of scope_exit: acquire/release without try-finally, the
\* lock stays held when the scope is left by an exception.
scope_exit_unless_raised(l, i, raised) ==
  IF raised THEN l ELSE [l EXCEPT ![i] = 0]

\* Faulty variant of scope_exit: the scope of record_event is not left
\* before the next acquisition (update_monthly_summary called inside it).
scope_exit_never(l, i, raised) == l

\* Leaving `with self._excel_lock`, normally, by return or by an exception:
\* the lock is released.
scope_exit(l, i, raised) == [l EXCEPT ![i] = 0]

\* The tracker's state as record_event_section takes it, for a thread of
\* instance i working on the workbook it loaded.
world_of(i, sheets) ==
  [ file |-> sheets, last_checkin |-> mem[i].last_checkin,
    user_ids |-> mem[i].user_ids, user_ids_file |-> user_ids_file ]

\* AttendanceTracker() at process start, for every instance.
StoreOpen ==
  /\ proc.state = "down"
  /\ \E rename_ok \in (IF scenario.faults THEN BOOLEAN ELSE {TRUE}),
        create_ok \in (IF scenario.faults THEN BOOLEAN ELSE {TRUE}) :
     \E r \in {open_store(disk, rename_ok, create_ok)} :
       /\ proc' = [state |-> r.state, found |-> disk, renamed |-> r.renamed]
       /\ disk' = r.disk
       /\ quarantine' = IF r.renamed THEN quarantine \cup {disk} ELSE quarantine
       /\ file' = IF r.disk = "workbook" /\ ~r.created THEN file
                  ELSE [k \in {} |-> new_sheet]
       /\ others' = IF r.disk = "workbook" /\ ~r.created THEN others ELSE {}
       /\ serial' = file'
       /\ mem' = [i \in Trackers |->
                    [last_checkin |->
                       IF r.disk = "workbook"
                       THEN load_today_checkins(
                              active_sheet_rows(others', user_ids_file, scenario.daily),
                              clock.day)
                       ELSE [k \in {} |-> NoTime],
                     user_ids |-> load_user_ids(user_ids_file)]]
  /\ UNCHANGED <<lock, task, clock, last_checkin, user_ids, user_ids_file,
                 frame, last, scenario, images,
                 export>>

\* The process is stopped: its threads, locks and memory are gone, the
\* files stay as they are.
StoreCrash ==
  /\ scenario.crash
  /\ proc.state = "up"
  /\ proc' = [proc EXCEPT !.state = "down"]
  /\ task' = [t \in Threads |-> [IdleTask EXCEPT !.calls = task[t].calls]]
  /\ lock' = [i \in Trackers |-> 0]
  /\ mem' = [i \in Trackers |-> NoMemory]
  /\ UNCHANGED <<disk, others, quarantine, serial, file, clock, last_checkin,
                 user_ids, user_ids_file, frame, last, scenario, images,
                 export>>

\* The people a thread records: its user and, in the environments that
\* name them, the others its camera sees.
seen_by(t) ==
  IF "also" \in DOMAIN scenario
  THEN {scenario.user[t]} \cup scenario.also[t]
  ELSE {scenario.user[t]}

\* A thread calls record_event(name, event): now is read; the reference
\* run makes the same call at once.
StoreCallRecord(t, event) ==
  /\ proc.state = "up" /\ task[t].pc = "idle" /\ task[t].calls < MaxCalls
  /\ "record" \in scenario.ops[t]
  /\ \E name \in seen_by(t) :
       /\ task' = [task EXCEPT ![t] =
            [IdleTask EXCEPT !.pc = "acquire", !.sec = "record",
                             !.name = name, !.event = event, !.now = Now,
                             !.calls = task[t].calls + 1]]
       /\ serial' = record_event([World EXCEPT !.file = serial],
                                 name, event, Now).w.file
  /\ UNCHANGED <<disk, others, quarantine, proc, lock, mem, file, clock,
                 last_checkin, user_ids, user_ids_file, frame, last, scenario, images,
                 export>>

\* A thread calls create_monthly_report, get_user_status or
\* update_user_directory.
StoreCall(t, sec) ==
  /\ proc.state = "up" /\ task[t].pc = "idle" /\ task[t].calls < MaxCalls
  /\ sec \in scenario.ops[t] \ {"record"}
  /\ task' = [task EXCEPT ![t] =
       [IdleTask EXCEPT !.pc = "acquire", !.sec = sec, !.name = scenario.user[t],
                        !.now = Now, !.calls = task[t].calls + 1]]
  /\ UNCHANGED <<disk, others, quarantine, proc, lock, mem, serial, file, clock,
                 last_checkin, user_ids, user_ids_file, frame, last, scenario, images,
                 export>>

\* Faulty variant of read_only: the queries go on to save the workbook they
\* loaded, like the other sections.
read_only_none(sec) == FALSE

\* get_user_status and get_today_attendance only read the workbook they
\* loaded: cell values are copied into the result, `wb.close()` follows, no
\* cell is assigned and wb.save is not called.
read_only(sec) == sec = "status"

\* Faulty variant of caught: the exception of a failed load or save is not
\* handled and reaches the caller.
uncaught(sec) == "raised"

\* What an operation returns from its `except` branch: record_event returns
\* False; the queries return the result they had collected so far, which is
\* empty when the load failed; the others return None.
caught(sec) == IF sec = "record" THEN "False" ELSE ""

\* Where a section continues when it ends without a commit of its own:
\* update_monthly_summary returns into record_event, the others return to
\* the caller.
leave_section(tk, ret, cause) ==
  IF tk.sec = "summary"
  THEN [tk EXCEPT !.pc = "after", !.sec = "record"]
  ELSE [tk EXCEPT !.pc = "ret", !.ret = ret, !.cause = cause]

\* `if not os.path.exists(self.attendance_file): return`, which every
\* operation but record_event begins with.
StoreSkip(t) ==
  /\ task[t].pc = "acquire" /\ task[t].sec # "record"
  /\ disk = "absent"
  /\ task' = [task EXCEPT ![t] = leave_section(task[t], "", "no_file")]
  /\ UNCHANGED <<disk, others, quarantine, proc, lock, mem, serial, file, clock,
                 last_checkin, user_ids, user_ids_file, frame, last, scenario, images,
                 export>>

\* `with self._excel_lock:` is entered.
StoreAcquire(t) ==
  /\ task[t].pc = "acquire"
  /\ task[t].sec = "record" \/ disk # "absent"
  /\ lock_free(lock, scenario.tracker[t])
  /\ lock' = [lock EXCEPT ![scenario.tracker[t]] = t]
  /\ task' = [task EXCEPT ![t].pc = "load"]
  /\ UNCHANGED <<disk, others, quarantine, proc, mem, serial, file, clock,
                 last_checkin, user_ids, user_ids_file, frame, last, scenario, images,
                 export>>

\* load_workbook inside the scope.  An exception leaves the scope and is
\* caught by the operation.  create_monthly_report leaves the scope right
\* after the load (line 807); the status query reads and leaves.
StoreLoad(t) ==
  /\ task[t].pc = "load"
  /\ \E tk \in {task[t]}, i \in {scenario.tracker[t]} :
       IF ~Loadable(disk)
       THEN /\ lock' = scope_exit(lock, i, TRUE)
            /\ task' = [task EXCEPT ![t] =
                 leave_section(tk, caught(tk.sec),
                               "load_failed")]
       ELSE IF read_only(tk.sec)
              \/ (tk.sec = "summary" /\ tk.name \notin DOMAIN file)
       THEN /\ lock' = scope_exit(lock, i, FALSE)
            /\ task' = [task EXCEPT ![t] = leave_section(tk, "status", "")]
       ELSE /\ lock' = IF tk.sec = "report" THEN scope_exit(lock, i, FALSE) ELSE lock
            /\ task' = [task EXCEPT ![t].pc = "modify",
                                    ![t].snap = [sheets |-> file, others |-> others]]
  /\ UNCHANGED <<disk, others, quarantine, proc, mem, serial, file, clock,
                 last_checkin, user_ids, user_ids_file, frame, last, scenario, images,
                 export>>

\* What the section writes: the workbook it loaded, changed.
pending(tk, sheets) ==
  IF tk.sec = "record" THEN [sheets |-> sheets, others |-> tk.snap.others]
  ELSE IF tk.sec = "summary"
  THEN [sheets |-> update_monthly_summary(tk.snap.sheets, tk.name),
        others |-> tk.snap.others]
  ELSE IF tk.sec = "directory"
  THEN [sheets |-> tk.snap.sheets, others |-> tk.snap.others \cup {"User Directory"}]
  ELSE [sheets |-> tk.snap.sheets, others |-> tk.snap.others \cup {"Monthly Report"}]

\* The section changes the loaded workbook and wb.save opens the file for
\* writing.  record_event may refuse (return False inside the scope);
\* create_monthly_report saves only inside its loop over the users found
\* in the daily rows; the open may fail.
StoreModify(t) ==
  /\ task[t].pc = "modify"
  /\ \E tk \in {task[t]}, i \in {scenario.tracker[t]} :
     \E a \in {IF tk.sec = "record"
               THEN record_event_section(world_of(i, tk.snap.sheets),
                                         tk.name, tk.event, tk.now)
               ELSE [w |-> world_of(i, tk.snap.sheets), saved |-> TRUE]} :
       /\ mem' = [mem EXCEPT ![i].user_ids = a.w.user_ids]
       /\ user_ids_file' = a.w.user_ids_file
       /\ IF ~a.saved
          THEN /\ lock' = scope_exit(lock, i, FALSE)
               /\ task' = [task EXCEPT ![t] = leave_section(tk, "False", "refused")]
               /\ UNCHANGED <<disk, file, others>>
          ELSE IF tk.sec = "report" /\ scenario.daily = {}
          THEN /\ task' = [task EXCEPT ![t] = leave_section(tk, "", "")]
               /\ UNCHANGED <<lock, disk, file, others>>
          ELSE \/ /\ disk' = "partial"
                  /\ file' = [k \in {} |-> new_sheet]
                  /\ others' = {}
                  /\ task' = [task EXCEPT ![t].pc = "commit",
                                          ![t].pend = pending(tk, a.w.file)]
                  /\ UNCHANGED lock
               \/ /\ scenario.faults
                  /\ lock' = IF tk.sec = "report" THEN lock
                             ELSE scope_exit(lock, i, TRUE)
                  /\ task' = [task EXCEPT ![t] =
                       leave_section(tk, caught(tk.sec),
                                     "commit_failed")]
                  /\ UNCHANGED <<disk, file, others>>
  /\ UNCHANGED <<quarantine, proc, serial, clock, last_checkin, user_ids,
                 frame, last, scenario, images,
                 export>>

\* wb.save finishes, or fails with the file half written; the scope is
\* left.  After its commit record_event goes on to update_monthly_summary.
StoreCommit(t) ==
  /\ task[t].pc = "commit"
  /\ \E tk \in {task[t]}, i \in {scenario.tracker[t]} :
       \/ /\ disk' = "workbook"
          /\ file' = tk.pend.sheets
          /\ others' = tk.pend.others
          /\ lock' = IF tk.sec = "report" THEN lock ELSE scope_exit(lock, i, FALSE)
          /\ task' = [task EXCEPT ![t] =
               IF tk.sec = "record"
               THEN [tk EXCEPT !.pc = "acquire", !.sec = "summary"]
               ELSE leave_section(tk, "", "")]
       \/ /\ scenario.faults
          /\ lock' = IF tk.sec = "report" THEN lock ELSE scope_exit(lock, i, TRUE)
          /\ task' = [task EXCEPT ![t] =
               leave_section(tk, caught(tk.sec),
                             "commit_failed")]
          /\ UNCHANGED <<disk, file, others>>
  /\ UNCHANGED <<quarantine, proc, mem, serial, clock, last_checkin, user_ids,
                 user_ids_file, frame, last, scenario, images,
                 export>>

\* Faulty variant of set_last_checkin: the `if event in [...]` is missing,
\* a check-out moves the cooldown entry too.
set_last_checkin_always(lc, name, event, now) ==
  [n \in DOMAIN lc \cup {name} |-> IF n = name THEN now ELSE lc[n]]

\* `if event in ['CHECK_IN', 'ACCESS_GRANTED']: self.last_checkin[name] = now`
set_last_checkin(lc, name, event, now) ==
  IF event \in {"CHECK_IN", "ACCESS_GRANTED"}
  THEN [n \in DOMAIN lc \cup {name} |-> IF n = name THEN now ELSE lc[n]]
  ELSE lc

\* record_event after update_monthly_summary: the cooldown entry, return
\* True.
StoreAfter(t) ==
  /\ task[t].pc = "after"
  /\ \E tk \in {task[t]}, i \in {scenario.tracker[t]} :
       /\ mem' = [mem EXCEPT ![i].last_checkin =
            set_last_checkin(mem[i].last_checkin, tk.name, tk.event, tk.now)]
       /\ task' = [task EXCEPT ![t].pc = "ret", ![t].ret = "True"]
  /\ UNCHANGED <<disk, others, quarantine, proc, lock, serial, file, clock,
                 last_checkin, user_ids, user_ids_file, frame, last, scenario, images,
                 export>>

\* The operation returns to its caller.
StoreReturn(t) ==
  /\ task[t].pc = "ret"
  /\ task' = [task EXCEPT ![t] = [IdleTask EXCEPT !.calls = task[t].calls]]
  /\ UNCHANGED <<disk, others, quarantine, proc, lock, mem, serial, file, clock,
                 last_checkin, user_ids, user_ids_file, frame, last, scenario, images,
                 export>>

\* A step of an operation that has been called.
StoreProgress(t) ==
  \/ StoreSkip(t)
  \/ StoreAcquire(t)
  \/ StoreLoad(t)
  \/ StoreModify(t)
  \/ StoreCommit(t)
  \/ StoreAfter(t)
  \/ StoreReturn(t)

StoreStep(t) ==
  \/ \E event \in {"CHECK_IN", "CHECK_OUT"} : StoreCallRecord(t, event)
  \/ \E sec \in {"report", "status", "directory"} : StoreCall(t, sec)
  \/ StoreProgress(t)

NextStore ==
  Tick \/ StoreOpen \/ StoreCrash \/ \E t \in scenario.threads : StoreStep(t)

\* The process has not started; attendance.xlsx is what the environment
\* left at its path (an existing workbook has no user sheets yet).
StoreAtStart ==
  /\ InitTracker
  /\ disk = scenario.disk0
  /\ others = {}
  /\ quarantine = {}
  /\ proc = [state |-> "down", found |-> "", renamed |-> FALSE]
  /\ lock = [i \in Trackers |-> 0]
  /\ mem = [i \in Trackers |-> NoMemory]
  /\ task = [t \in Threads |-> IdleTask]
  /\ serial = [k \in {} |-> new_sheet]

InitStore == scenario \in StoreScenarios /\ StoreAtStart

SpecStore == InitStore /\ [][NextStore]_vars

\* The environments in which termination is examined: two threads that
\* record distinct users through one tracker at one instant, and the
\* environments of StoreScenarios with a report, with failing saves and
\* with a process that is stopped and started again.
FairScenarios ==
  { [threads |-> Threads, user |-> <<(<<"Ann">>), (<<"Bob">>)>>, tracker |-> <<1, 1>>,
     ops |-> <<{"record"}, {"record"}>>, faults |-> FALSE, crash |-> FALSE,
     daily |-> {}, ticks |-> {1}, disk0 |-> "absent"] }
  \cup { s \in StoreScenarios : s.faults \/ s.crash \/ s.daily # {} }

InitFair == scenario \in FairScenarios /\ StoreAtStart

\* The store with a fair scheduler: a thread that is inside an operation
\* and can take its next step eventually takes it (callers need not call).
SpecStoreFair ==
  /\ InitFair /\ [][NextStore]_vars
  /\ \A t \in Threads : WF_vars(t \in scenario.threads /\ StoreProgress(t))

\* The environment in which the frame of record_event is examined: the
\* camera thread records two people while a second thread builds the
\* monthly report over a ledger that still has rows of the daily layout;
\* the process may be stopped and started again.
FrameScenarios ==
  { [threads |-> Threads, user |-> <<(<<"Ann">>), (<<"Ann">>)>>,
     also |-> <<{ <<"Bob">> }, {}>>, tracker |-> <<1, 1>>,
     ops |-> <<{"record"}, {"report"}>>, faults |-> FALSE, crash |-> TRUE,
     daily |-> { <<"Ann">> }, ticks |-> {1, 5}, disk0 |-> "workbook"] }

InitFrame == scenario \in FrameScenarios /\ StoreAtStart

SpecFrame == InitFrame /\ [][NextStore]_vars

\* ------------------------------------------------- the identity registry
\* _get_or_create_user_id at the grain of its statements.  It takes no
\* lock; record_event reaches it inside its lock scope (the StoreModify
\* step), enroll_face and log_status_to_file call it directly.
\*
\* The environments: two threads that resolve names through one tracker
\* while one of them also records, and one thread whose writes may fail;
\* the process may be stopped and started again in both.
RegistryScenarios ==
  { [threads |-> Threads, user |-> <<(<<"Ann">>), (<<"Ann">>)>>, tracker |-> <<1, 1>>,
     ops |-> <<{"record", "resolve"}, {"resolve"}>>, faults |-> FALSE, crash |-> TRUE,
     daily |-> {}, ticks |-> {1}, disk0 |-> "absent"],
    [threads |-> {1}, user |-> <<(<<"Ann">>), (<<"Ann">>)>>, tracker |-> <<1, 1>>,
     ops |-> <<{"resolve"}, {}>>, faults |-> TRUE, crash |-> TRUE,
     daily |-> {}, ticks |-> {1, 5}, disk0 |-> "absent"] }

\* A thread calls _get_or_create_user_id(name).
ResolveCall(t, name) ==
  /\ proc.state = "up" /\ task[t].pc = "idle"
  /\ "resolve" \in scenario.ops[t]
  /\ task' = [task EXCEPT ![t] =
       [IdleTask EXCEPT !.pc = "check", !.sec = "resolve", !.name = name,
                        !.calls = task[t].calls]]
  /\ UNCHANGED <<disk, others, quarantine, proc, lock, mem, serial, file, clock,
                 last_checkin, user_ids, user_ids_file, frame, last, scenario, images,
                 export>>

\* `if name not in self.user_ids:`; a known name goes to the return.
ResolveCheck(t) ==
  /\ task[t].pc = "check"
  /\ \E tk \in {task[t]}, i \in {scenario.tracker[t]} :
       task' = [task EXCEPT ![t] =
         IF tk.name \in DOMAIN mem[i].user_ids
         THEN [tk EXCEPT !.pc = "ret", !.ret = mem[i].user_ids[tk.name]]
         ELSE [tk EXCEPT !.pc = "store"]]
  /\ UNCHANGED <<disk, others, quarantine, proc, lock, mem, serial, file, clock,
                 last_checkin, user_ids, user_ids_file, frame, last, scenario, images,
                 export>>

\* `user_id = self._generate_user_id(name); self.user_ids[name] = user_id`
ResolveStore(t) ==
  /\ task[t].pc = "store"
  /\ \E tk \in {task[t]}, i \in {scenario.tracker[t]} :
       /\ mem' = [mem EXCEPT ![i].user_ids =
            [n \in DOMAIN mem[i].user_ids \cup {tk.name} |->
               IF n = tk.name THEN generate_user_id(tk.name)
               ELSE mem[i].user_ids[n]]]
       /\ task' = [task EXCEPT ![t].pc = "append"]
  /\ UNCHANGED <<disk, others, quarantine, proc, lock, serial, file, clock,
                 last_checkin, user_ids, user_ids_file, frame, last, scenario, images,
                 export>>

\* The row is appended to user_ids.csv, or the write fails and is only
\* logged; `return self.user_ids[name]`.
ResolveAppend(t) ==
  /\ task[t].pc = "append"
  /\ \E tk \in {task[t]}, i \in {scenario.tracker[t]} :
       /\ \/ user_ids_file' =
               Append(user_ids_file, <<tk.name, generate_user_id(tk.name)>>)
          \/ scenario.faults /\ UNCHANGED user_ids_file
       /\ task' = [task EXCEPT ![t].pc = "ret", ![t].ret = mem[i].user_ids[tk.name]]
  /\ UNCHANGED <<disk, others, quarantine, proc, lock, mem, serial, file, clock,
                 last_checkin, user_ids, frame, last, scenario, images,
                 export>>

ResolveStep(t) ==
  \/ \E name \in Names : ResolveCall(t, name)
  \/ ResolveCheck(t)
  \/ ResolveStore(t)
  \/ ResolveAppend(t)

NextRegistry == NextStore \/ \E t \in scenario.threads : ResolveStep(t)

InitRegistry == scenario \in RegistryScenarios /\ StoreAtStart

\* The registry used by several threads, next to the ledger operations.
SpecRegistry == InitRegistry /\ [][NextRegistry]_vars

\* ================================================================ claims
IsEmpty(row) == ~Truthy(row.first)
IsIn(row) == Truthy(row.first) /\ ~Truthy(row.last)
IsOut(row) == Truthy(row.first) /\ Truthy(row.last)

Days == 1..DaysInMonth

\* The call that has just returned was record_event with this event, made
\* directly or through check_in_out.
Returned(event) == last.pc = "returned" /\ last.event = event

\* The DayRecord the returned call was about, as it is in the file now.
RowAfter == day_record(file, last.name, last.now.day)

\* Whole minutes between two '%H:%M:%S' values.
WholeMinutes(from, to) == (strptime_HMS(to) - strptime_HMS(from)) \div SecPerMin

\* C1: once firstCheckIn of a DayRecord is non-empty, no step of any
\* thread's record_event (CHECK_IN or CHECK_OUT, in any order) changes it.
C1_FirstCheckInSetOnce ==
  [][\A n \in Names, d \in Days :
       Truthy(day_record(file, n, d).first)
         => day_record(file', n, d).first = day_record(file, n, d).first]_vars

\* C1 witness: a thread's later CHECK_IN was accepted on a day whose
\* firstCheckIn had been set at another time by an earlier call.
C1_Witness ==
  \E t \in Threads :
    /\ frame[t].pc = "re_return" /\ frame[t].wrote
    /\ frame[t].event = "CHECK_IN"
    /\ Truthy(day_record(file, frame[t].name, frame[t].now.day).first)
    /\ day_record(file, frame[t].name, frame[t].now.day).first
         # strftime_HMS(frame[t].now)

\* C2 as claimed: in state OUT, lastCheckOut is the time of the last accepted
\* CHECK_OUT and totalWorked equals lastCheckOut - firstCheckIn exactly.
C2_TotalWorkedExact ==
  /\ \A n \in Names, d \in Days :
       LET r == day_record(file, n, d)
       IN  IsOut(r) =>
             parse_time_to_minutes(r.total) * SecPerMin
               = strptime_HMS(r.last) - strptime_HMS(r.first)
  /\ (Returned("CHECK_OUT") /\ last.wrote) => RowAfter.last = strftime_HMS(last.now)

\* C2 amended: in state OUT, after calls made one after another, lastCheckOut
\* is the time of the last accepted CHECK_OUT and totalWorked is
\* lastCheckOut - firstCheckIn in hours and whole minutes (seconds dropped),
\* computed from the existing firstCheckIn.
C2_TotalWorkedWholeMinutes ==
  /\ \A n \in Names, d \in Days :
       LET r == day_record(file, n, d)
           mins == WholeMinutes(r.first, r.last)
       IN  IsOut(r) =>
             /\ strptime_HMS(r.first) <= strptime_HMS(r.last)
             /\ r.total = << mins \div MinPerHour, mins % MinPerHour >>
  /\ (Returned("CHECK_OUT") /\ last.wrote) =>
       /\ IsOut(RowAfter)
       /\ RowAfter.last = strftime_HMS(last.now)
       /\ RowAfter.first = last.before.first

\* C2 witness: a CHECK_OUT accepted on a day that was already OUT, with a
\* worked time that is not a whole number of minutes.
C2_Witness ==
  /\ Returned("CHECK_OUT") /\ last.wrote /\ IsOut(last.before)
  /\ RowAfter.last # last.before.last
  /\ (strptime_HMS(RowAfter.last) - strptime_HMS(RowAfter.first)) % SecPerMin # 0

\* C3: a CHECK_OUT for a DayRecord without firstCheckIn is rejected:
\* record_event returns False and the saved workbook is unchanged.
C3_CheckOutWithoutCheckInRejected ==
  [][(last'.pc = "returned" /\ last'.event = "CHECK_OUT" /\ IsEmpty(last'.before))
       => (~last'.wrote /\ file' = file
           /\ IsEmpty(day_record(file', last'.name, last'.now.day)))]_vars

\* C3 witness: a CHECK_OUT on an EMPTY day has returned.
C3_Witness ==
  Returned("CHECK_OUT") /\ IsEmpty(last.before) /\ ~last.wrote /\ IsEmpty(RowAfter)

\* C4: a CHECK_IN on a DayRecord in state OUT clears lastCheckOut and
\* totalWorked, leaves firstCheckIn, punctuality and lateBy as they were,
\* and leaves the record IN.
C4_ToggleBack ==
  (Returned("CHECK_IN") /\ IsOut(last.before)) =>
    /\ last.wrote
    /\ ~Truthy(RowAfter.last) /\ ~Truthy(RowAfter.total)
    /\ RowAfter.first = last.before.first
    /\ RowAfter.status = last.before.status
    /\ RowAfter.late = last.before.late
    /\ IsIn(RowAfter)

\* C4 witness: a CHECK_IN has returned on a day that was OUT.
C4_Witness ==
  Returned("CHECK_IN") /\ IsOut(last.before) /\ IsIn(RowAfter)

\* C5: a CHECK_IN on a DayRecord already IN reports success and leaves
\* every field of the DayRecord as it was.
C5_CheckInWhenInIsNoOp ==
  (Returned("CHECK_IN") /\ IsIn(last.before)) =>
    (last.wrote /\ RowAfter = last.before)

\* C5 witness: a CHECK_IN has returned, at a later time, on a day that was IN.
C5_Witness ==
  /\ Returned("CHECK_IN") /\ IsIn(last.before)
  /\ last.before.first # strftime_HMS(last.now)

\* C6 as claimed: a CHECK_IN on an EMPTY day at time now sets firstCheckIn =
\* now, ON_TIME with lateBy zero when now is at or before the cutoff, LATE
\* with lateBy = now - cutoff when it is after; the record is then IN.
C6_FirstCheckInExactLateBy ==
  (Returned("CHECK_IN") /\ IsEmpty(last.before)) =>
    /\ last.wrote /\ IsIn(RowAfter)
    /\ RowAfter.first = strftime_HMS(last.now)
    /\ IF last.now.sec > CutoffSeconds
          \/ (last.now.sec = CutoffSeconds /\ last.now.us > 0)
       THEN /\ RowAfter.status = "LATE"
            /\ parse_time_to_minutes(RowAfter.late) * SecPerMin
                 = last.now.sec - CutoffSeconds
       ELSE /\ RowAfter.status = "ON TIME"
            /\ RowAfter.late = <<0>>

\* C6 amended: a CHECK_IN on an EMPTY day at time now sets firstCheckIn to
\* now (to the second), ON_TIME with lateBy '0m' when now is at or before the
\* cutoff, LATE with lateBy = the whole minutes of now - cutoff (seconds
\* dropped, so possibly '0m') when it is after; the record is then IN.
C6_FirstCheckInWholeMinutesLateBy ==
  (Returned("CHECK_IN") /\ IsEmpty(last.before)) =>
    /\ last.wrote /\ IsIn(RowAfter)
    /\ RowAfter.first = strftime_HMS(last.now)
    /\ IF last.now.sec > CutoffSeconds
          \/ (last.now.sec = CutoffSeconds /\ last.now.us > 0)
       THEN /\ RowAfter.status = "LATE"
            /\ Truthy(RowAfter.late)
            /\ parse_time_to_minutes(RowAfter.late)
                 = (last.now.sec - CutoffSeconds) \div SecPerMin
       ELSE /\ RowAfter.status = "ON TIME"
            /\ RowAfter.late = <<0>>

\* C6 witness: a first CHECK_IN of the day was recorded LATE at a time that
\* is not a whole number of minutes after the cutoff.
C6_Witness ==
  /\ Returned("CHECK_IN") /\ IsEmpty(last.before) /\ last.wrote
  /\ RowAfter.status = "LATE"
  /\ (last.now.sec - CutoffSeconds) % SecPerMin # 0

\* The instants of the scenario of C7.
At0815 == [h |-> 8, m |-> 15, s |-> 0]
At1740 == [h |-> 17, m |-> 40, s |-> 0]
IsAt(now, t) == now.us = 0 /\ strftime_HMS(now) = <<t.h, t.m, t.s>>

C8_OvertimeExact ==
  (Returned("CHECK_OUT") /\ last.wrote) =>
    IF last.now.sec > OtCutoffSeconds
       \/ (last.now.sec = OtCutoffSeconds /\ last.now.us > 0)
    THEN parse_time_to_minutes(RowAfter.ot) * SecPerMin
           = last.now.sec - OtCutoffSeconds
    ELSE RowAfter.ot = <<0>>

\* C8 amended: every accepted CHECK_OUT at time now replaces the overtime
\* value by the whole minutes of now - otCutoff (seconds dropped) when now is
\* past the overtime cutoff and by '0m' otherwise, whatever an earlier
\* CHECK_OUT of the day had stored.
C8_OvertimeWholeMinutes ==
  (Returned("CHECK_OUT") /\ last.wrote) =>
    /\ Truthy(RowAfter.ot)
    /\ IF last.now.sec > OtCutoffSeconds
          \/ (last.now.sec = OtCutoffSeconds /\ last.now.us > 0)
       THEN parse_time_to_minutes(RowAfter.ot)
              = (last.now.sec - OtCutoffSeconds) \div SecPerMin
       ELSE RowAfter.ot = <<0>>

\* C8 witness: a CHECK_OUT accepted on a day that was already OUT replaced
\* the overtime value the earlier CHECK_OUT had stored by a different one.
C8_Witness ==
  /\ Returned("CHECK_OUT") /\ last.wrote /\ IsOut(last.before)
  /\ Truthy(last.before.ot)
  /\ RowAfter.ot # last.before.ot

\* C9: in every reachable ledger state the status query reports no entry
\* (NONE) for an identity whose DayRecord of today has no firstCheckIn, IN
\* exactly when firstCheckIn is set and lastCheckOut is empty, and OUT
\* exactly when both are set.
C9_StatusAgreesWithLedger ==
  \A n \in Names :
    LET r == day_record(file, n, clock.day)
        st == current_status_of(get_user_status(file, Now), n)
    IN  /\ IsEmpty(r) => st = "NONE"
        /\ IsIn(r) <=> st = "IN"
        /\ IsOut(r) <=> st = "OUT"

\* C10: check_in_out(name) performs CHECK_OUT when the identity is IN and
\* CHECK_IN otherwise; called for an identity whose DayRecord of today is
\* EMPTY it records a CHECK_IN and the identity is IN afterwards.
C10_ToggleFromEmptyChecksIn ==
  (last.pc = "returned" /\ last.op = "check_in_out") =>
    /\ last.event = IF IsIn(last.before) THEN "CHECK_OUT" ELSE "CHECK_IN"
    /\ IsEmpty(last.before) =>
         (last.wrote /\ last.ret = "CHECKED IN" /\ IsIn(RowAfter))

\* ------------------------------------------------------ claims on the store
\* The thread is inside a `with self._excel_lock` scope of its tracker.
InScope(t) == lock[scenario.tracker[t]] = t

\* What can be at the path of attendance.xlsx that load_workbook rejects.
Corrupt == {"garbage", "partial", "invalid"}

\* The environment of concurrent record_event calls on one tracker for
\* distinct identities, with nothing failing.
ConcurrentRecords ==
  /\ scenario.threads = Threads
  /\ scenario.tracker[1] = scenario.tracker[2]
  /\ scenario.user[1] # scenario.user[2]
  /\ ~scenario.faults /\ ~scenario.crash /\ scenario.daily = {}

\* C11: every write of the ledger file happens while the writer holds the
\* store lock, in the lock scope in which it loaded the workbook: a thread
\* whose wb.save is under way is inside its scope.
C11_WritesInsideLoadScope ==
  \A t \in Threads : task[t].pc = "commit" => InScope(t)

\* C12: the store lock is one exclusive lock for the process: never two
\* threads are inside a lock scope at once, whatever tracker instances
\* they call.
C12_OneThreadInScope ==
  \A t1, t2 \in Threads : (InScope(t1) /\ InScope(t2)) => t1 = t2

\* C13: the lock is released on every exit path: a thread that is not
\* between the entry and the exit of a `with self._excel_lock` block (it is
\* idle, about to enter, past update_monthly_summary, or returning after
\* success, refusal or exception) holds no lock.
C13_LockReleasedOnExit ==
  \A t \in Threads :
    task[t].pc \in {"idle", "acquire", "after", "ret"} =>
      \A i \in Trackers : lock[i] # t

\* C13, the case: record_event has left its scope by the exception of a
\* save that failed half way, has returned False, and the lock is free.
C13_Witness ==
  /\ \E t \in Threads :
       /\ task[t].pc = "ret" /\ task[t].sec = "record"
       /\ task[t].cause = "commit_failed" /\ task[t].ret = "False"
  /\ disk = "partial"
  /\ \A i \in Trackers : lock[i] = 0

\* C14: a commit replaces the file atomically: when the process has been
\* stopped, also in the middle of a commit, the file that was a workbook
\* (or absent) at the start is a complete workbook or absent.
C14_StoppedLeavesCompleteSnapshot ==
  (proc.state = "down" /\ scenario.disk0 \notin Corrupt) =>
    disk \in {"workbook", "absent"}

\* C15: when the commit of record_event fails, the call returns False, the
\* file is the workbook that was loaded (the last committed snapshot) and
\* the cooldown map has no entry from the call.
C15_FailedCommitLeavesSnapshot ==
  \A t \in Threads :
    (task[t].pc = "ret" /\ task[t].sec = "record"
       /\ task[t].cause = "commit_failed" /\ scenario.threads = {t}) =>
      /\ task[t].ret = "False"
      /\ disk = "workbook"
      /\ file = task[t].snap.sheets
      /\ others = task[t].snap.others
      /\ task[t].name \notin DOMAIN mem[scenario.tracker[t]].last_checkin

\* C16: opening a store whose file exists and is unreadable or structurally
\* invalid does not fail, ends with an empty workbook at the path and keeps
\* the corrupt file under its quarantine name.
C16_CorruptFileRecovered ==
  [][ (proc.state = "down" /\ proc'.state # "down" /\ disk \in Corrupt) =>
        /\ proc'.state = "up"
        /\ disk' = "workbook"
        /\ file' = [k \in {} |-> new_sheet]
        /\ disk \in quarantine' ]_vars

\* C17: concurrent record_event calls for distinct identities on one
\* tracker end, in every interleaving, with the DayRecords (and summaries)
\* of the same calls made one after the other; no committed transition is
\* lost.
C17_SameAsSerial ==
  (ConcurrentRecords /\ proc.state = "up" /\ \A t \in Threads : task[t].pc = "idle") =>
    /\ disk = "workbook"
    /\ DOMAIN file = DOMAIN serial
    /\ \A n \in DOMAIN serial :
         /\ \A d \in Days : day_record(file, n, d) = day_record(serial, n, d)
         /\ file[n].summary = serial[n].summary

\* C17, the case: both threads have made all their calls, each identity
\* has checked in and out, and everything has returned.
C17_Witness ==
  /\ ConcurrentRecords
  /\ \A t \in Threads : task[t].pc = "idle" /\ task[t].calls = MaxCalls
  /\ \A t \in Threads : IsOut(day_record(file, scenario.user[t], clock.day))
  /\ day_record(file, scenario.user[1], clock.day).first
       # day_record(file, scenario.user[2], clock.day).last

\* C18: under a fair scheduler every call that has been made returns: no
\* thread waits for ever for the lock, and none acquires the lock it
\* holds.
C18_EveryCallReturns ==
  \A t \in Threads : (task[t].pc # "idle") ~> (task[t].pc = "idle")

\* C18, the case: a thread waits to enter a scope while the other thread
\* is inside one of the same tracker.
C18_Witness ==
  \E t1, t2 \in Threads :
    /\ t1 # t2
    /\ task[t1].pc = "acquire" /\ task[t1].sec = "summary"
    /\ InScope(t2) /\ scenario.tracker[t1] = scenario.tracker[t2]

\* C19: _get_or_create_user_sheet is idempotent: called twice for an
\* identity it yields the workbook of the first call, with exactly one
\* sheet of that identity, and an existing sheet keeps its DayRecords.
C19_GetOrCreateIdempotent ==
  \A n \in Names :
    LET once == get_or_create_user_sheet(file, n)
    IN  /\ get_or_create_user_sheet(once, n) = once
        /\ Cardinality({k \in DOMAIN once : sheet_owner(k) = n}) = 1
        /\ \A d \in Days : day_record(once, n, d) = day_record(file, n, d)
        /\ \A k \in DOMAIN file : once[k] = file[k]

\* C19, the case: the sheet exists and holds a DayRecord that is not
\* EMPTY, and another identity has no sheet yet.
C19_Witness ==
  /\ \E n \in DOMAIN file : \E d \in Days : IsOut(day_record(file, n, d))
  /\ \E n \in Names : n \notin DOMAIN file

\* C20: every MonthSheet holds exactly one DayRecord for each day of its
\* month and none for another date, a sheet is created with all of them
\* EMPTY, and record_event finds the row of today: only a check-out
\* without check-in leaves a call unrecorded.
C20_OneDayRecordPerDay ==
  /\ \A n \in DOMAIN file :
       /\ \A d \in Days :
            Cardinality({r \in DOMAIN file[n].rows : file[n].rows[r].date = d}) = 1
       /\ \A r \in DOMAIN file[n].rows : file[n].rows[r].date \in Days
  /\ \A n \in Names \ DOMAIN file :
       \A r \in DOMAIN get_or_create_user_sheet(file, n)[n].rows :
         IsEmpty(get_or_create_user_sheet(file, n)[n].rows[r])
  /\ \A n \in Names : find_row(get_or_create_user_sheet(file, n)[n], clock.day) # 0
  /\ (last.pc = "returned" /\ ~last.wrote) =>
       (last.event = "CHECK_OUT" /\ IsEmpty(last.before))

\* C20, the case: on the last day of the month a call has been recorded in
\* the row of that day.
C20_Witness ==
  /\ clock.day = DaysInMonth /\ DaysInMonth > 1
  /\ Returned("CHECK_IN") /\ last.wrote
  /\ IsIn(RowAfter) /\ RowAfter.date = DaysInMonth

\* ---------------------------------------------------- claims on the summary
\* The minutes a duration text of a DayRecord or of the summary stands for:
\* 'Xh Ym', 'Ym', nothing.
MinutesOf(text) ==
  IF Len(text) = 2 THEN text[1] * MinPerHour + text[2]
  ELSE IF Len(text) = 1 THEN text[1] ELSE 0

\* The sum over the days of the month of the minutes in one column.
TotalMinutes(rows, column) ==
  sum_upto([d \in Days |-> MinutesOf(rows[d][column])], DaysInMonth)

\* C21: aggregation is idempotent: update_monthly_summary run a second
\* time on a workbook leaves the summary block and the DayRecords of the
\* first run.
C21_SummaryIdempotent ==
  \A n \in DOMAIN file :
    LET once == update_monthly_summary(file, n)
    IN  /\ update_monthly_summary(once, n) = once
        /\ once[n].rows = file[n].rows

\* C21, the case: a check-out has been saved and the summary of the sheet
\* is still the one from before it, so the first run changes the block.
C21_Witness ==
  \E n \in DOMAIN file :
    /\ update_monthly_summary(file, n) # file
    /\ \E d \in Days : IsOut(file[n].rows[d])
    /\ file[n].summary.days[1] = "int"

\* C22: after update_monthly_summary the summary block is a function of
\* the DayRecords: the working days are the days with a first check-in,
\* the worked, late and overtime times are the sums of the days' values,
\* and the overtime days are the days with non-zero overtime.
C22_SummaryFromDayRecords ==
  \A n \in DOMAIN file :
    LET rows == file[n].rows
        s == file[n].summary
    IN  /\ s.days = <<"int", Cardinality({d \in Days : ~IsEmpty(rows[d])})>>
        /\ MinutesOf(s.hours) = TotalMinutes(rows, "total")
        /\ MinutesOf(s.lateTime) = TotalMinutes(rows, "late")
        /\ s.otDays = <<"int", Cardinality({d \in Days : MinutesOf(rows[d].ot) > 0})>>
        /\ MinutesOf(s.otTime) = TotalMinutes(rows, "ot")

\* C22, the case: a sheet with a day that ended without overtime and a day
\* that ended with overtime.
C22_Witness ==
  \E n \in DOMAIN file :
    /\ \E d \in Days : IsOut(file[n].rows[d]) /\ file[n].rows[d].ot = <<0>>
    /\ \E d \in Days : IsOut(file[n].rows[d]) /\ MinutesOf(file[n].rows[d].ot) > 0
    /\ MinutesOf(file[n].summary.hours) > MinPerHour

\* --------------------------------------------------- claims on the registry
\* The rows of user_ids.csv that are about a name.
IndexRows(name) == {k \in DOMAIN user_ids_file : user_ids_file[k][1] = name}

\* C23: identity ids are stable: every call of _get_or_create_user_id
\* returns the id derived from the name, in the same process, after a
\* restart and after a failed write of user_ids.csv; the ids in memory and
\* in the file are the derived ones.
C23_IdsAreDerivedFromName ==
  /\ \A t \in Threads :
       (task[t].sec = "resolve" /\ task[t].pc = "ret") =>
         task[t].ret = generate_user_id(task[t].name)
  /\ \A i \in Trackers : \A n \in DOMAIN mem[i].user_ids :
       mem[i].user_ids[n] = generate_user_id(n)
  /\ \A k \in DOMAIN user_ids_file :
       user_ids_file[k][2] = generate_user_id(user_ids_file[k][1])

\* C23, the case: the process has been restarted with Ann in the file,
\* Ann's id has been returned from what was loaded, and a call for Bob
\* whose write failed has returned Bob's id.
C23_Witness ==
  /\ proc.state = "up" /\ proc.found = "workbook"
  /\ IndexRows(<<"Ann">>) # {} /\ IndexRows(<<"Bob">>) = {}
  /\ \E t \in Threads :
       /\ task[t].sec = "resolve" /\ task[t].pc = "ret"
       /\ task[t].name = <<"Bob">>
  /\ \A i \in Trackers : <<"Ann">> \in DOMAIN mem[i].user_ids

\* C24: the registry is safe under concurrent use: user_ids.csv never
\* holds more than one row for a name, and the callers that have resolved
\* the same name hold the same id.
C24_OneRowPerName ==
  /\ \A n \in Names : Cardinality(IndexRows(n)) <= 1
  /\ \A t1, t2 \in Threads :
       (task[t1].sec = "resolve" /\ task[t1].pc = "ret"
          /\ task[t2].sec = "resolve" /\ task[t2].pc = "ret"
          /\ task[t1].name = task[t2].name) =>
         task[t1].ret = task[t2].ret

\* --------------------------------------------------- claims on the cooldown
\* C25: the cooldown index is rebuilt at startup: when a tracker has been
\* constructed over a ledger in which an identity has a first check-in
\* today, last_checkin holds that identity with the time of the check-in.
C25_CooldownRebuiltAtStartup ==
  [][ (proc.state = "down" /\ proc'.state = "up" /\ disk' = "workbook") =>
        \A n \in DOMAIN file' :
          ~IsEmpty(day_record(file', n, clock.day)) =>
            \A i \in Trackers :
              /\ n \in DOMAIN mem'[i].last_checkin
              /\ mem'[i].last_checkin[n].day = clock.day
              /\ mem'[i].last_checkin[n].sec
                   = strptime_HMS(day_record(file', n, clock.day).first) ]_vars

\* The step in which record_event of thread t returns (True, or False
\* after a refusal or a failure).
RecordReturns(t) ==
  /\ task[t].sec \in {"record", "summary"}
  /\ task[t].pc # "ret" /\ task'[t].pc = "ret"

C27_ResultSaysWhatWasRecorded ==
  (last.pc = "returned" /\ last.op \in {"check_in_out", "manual_checkout"}) =>
    (last.ret \in {"CHECKED IN", "CHECKED OUT"} <=> last.wrote)

\* C28: the read path is read-only: no step of get_user_status or
\* get_today_attendance, from the call to the return, changes the attendance
\* file (DayRecords and monthly summaries), the quarantined files, the
\* registry file, or a tracker's cooldown index and registry.
C28_QueriesChangeNothing ==
  [][\A t \in Threads :
       (/\ task[t].sec = "status" \/ task'[t].sec = "status"
        /\ task'[t] # task[t]
        /\ proc' = proc)
       => UNCHANGED <<disk, file, others, quarantine, user_ids_file, mem>>]_vars

\* A query has read a ledger that holds a check-in and returns its result.
C28_Witness ==
  \E t \in Threads :
    /\ task[t].sec = "status" /\ task[t].pc = "ret" /\ task[t].ret = "status"
    /\ disk = "workbook"
    /\ \E n \in DOMAIN file : \E d \in DOMAIN file[n].rows : Truthy(file[n].rows[d].first)

\* C29: status queries degrade gracefully: when the attendance file is
\* missing, half written or not a workbook at the moment the query reads it,
\* the query returns an empty result; it never raises.
C29_QueriesReturnEmptyOnBadFile ==
  [][\A t \in Threads :
       (/\ task[t].sec = "status"
        /\ task[t].pc \in {"acquire", "load"} /\ task'[t].pc = "ret"
        /\ ~Loadable(disk))
       => task'[t].ret = ""]_vars

\* A query has returned empty over a file that could not be loaded.
C29_Witness ==
  \E t \in Threads :
    /\ task[t].sec = "status" /\ task[t].pc = "ret"
    /\ task[t].cause = "load_failed" /\ task[t].ret = ""
    /\ disk \in {"partial", "garbage"}

C31_DeletePurgesLedger ==
  (last.pc = "returned" /\ last.op = "delete_user") =>
    /\ \A k \in DOMAIN file : sheet_owner(k) # last.name
    /\ last.name \notin DOMAIN get_user_status(file, Now)

\* The rows of the ledger whose date is within the bounds (0: no bound).
DayRecordsBetween(wb, start_date, end_date) ==
  { <<k, r>> \in { <<j, q>> \in (DOMAIN wb) \X (1..DaysInMonth) : q \in DOMAIN wb[j].rows } :
      /\ (start_date = 0 \/ start_date <= wb[k].rows[r].date)
      /\ (end_date = 0 \/ wb[k].rows[r].date <= end_date) }

\* C32: the flat export serializes the DayRecords of the ledger: when
\* export_report(output, start, end) has returned, the output file holds
\* exactly the DayRecords with start <= date <= end, all of them when no
\* bound is given.
C32_ExportHoldsTheDayRecords ==
  (last.pc = "returned" /\ last.op = "export_report") =>
    export.rows = DayRecordsBetween(file, export.start_date, export.end_date)

\* C34: get_attendance_summary returns the dictionary of today's counts in
\* every state of the ledger, also when an identity has a DayRecord for
\* today; it never fails on the records of get_today_attendance.
C34_SummaryOfTheDayIsReturned ==
  (last.pc = "returned" /\ last.op = "get_attendance_summary") =>
    last.ret = "summary"

\* C33: in the monthly summary, daysLate is the number of DayRecords of the
\* month whose punctuality is LATE, also when a check-in was after the
\* cutoff by less than one minute.
C33_DaysLateCountsLateDays ==
  \A n \in DOMAIN file :
    file[n].summary.daysLate =
      <<"int", Cardinality({d \in DOMAIN file[n].rows : file[n].rows[d].status = "LATE"})>>

\* The three well-formed states of a DayRecord.
WellFormed(row) ==
  \/ /\ ~Truthy(row.first) /\ ~Truthy(row.last) /\ ~Truthy(row.total)
     /\ row.status = ""
  \/ /\ Truthy(row.first) /\ row.status \in {"LATE", "ON TIME"}
     /\ ~Truthy(row.last) /\ ~Truthy(row.total)
  \/ /\ Truthy(row.first) /\ row.status \in {"LATE", "ON TIME"}
     /\ Truthy(row.last) /\ Truthy(row.total)

\* C35: every persisted DayRecord is EMPTY (first check-in, last check-out,
\* total and punctuality empty), IN (first check-in and punctuality set,
\* last check-out and total empty) or OUT (all four set); a last check-out
\* is never set without a first check-in.
C35_DayRecordsWellFormed ==
  \A n \in DOMAIN file : \A d \in DOMAIN file[n].rows : WellFormed(file[n].rows[d])

\* C35, the case: an identity has checked out on one day and is checked in
\* on another, the remaining rows being empty.
C35_Witness ==
  \E n \in DOMAIN file :
    /\ \E d \in DOMAIN file[n].rows : IsOut(file[n].rows[d])
    /\ \E d \in DOMAIN file[n].rows : IsIn(file[n].rows[d])

\* Two workbooks differ at most in the DayRecord of (name, day) and in the
\* summary block of name's sheet.
SameBut(before, after, name, day) ==
  /\ DOMAIN after \ {name} = DOMAIN before \ {name}
  /\ \A k \in DOMAIN before :
       /\ k \in DOMAIN after
       /\ \A d \in DOMAIN before[k].rows :
            (k # name \/ before[k].rows[d].date # day) =>
              /\ d \in DOMAIN after[k].rows
              /\ after[k].rows[d] = before[k].rows[d]
       /\ k # name => after[k].summary = before[k].summary

\* C36: record_event(name, kind) changes at most the DayRecord of (name,
\* today) and the summary block of name's sheet: whenever one of its two
\* lock scopes saves, the workbook it writes differs from the workbook on
\* disk in nothing else, in every interleaving with other operations.
C36_RecordEventChangesOnlyItsDayRecord ==
  [][\A t \in Threads :
       (/\ task[t].sec \in {"record", "summary"}
        /\ task[t].pc = "modify" /\ task'[t].pc = "commit"
        /\ disk = "workbook")
       => SameBut(file, task'[t].pend.sheets, task[t].name, task[t].now.day)]_vars

\* C37: whenever a DayRecord has both a first check-in and a last
\* check-out, the check-out is not earlier than the check-in and the total
\* is the whole minutes between them, in every interleaving of concurrent
\* record_event calls, each of which reads the clock before it takes the
\* lock.
C37_CheckOutNotBeforeCheckIn ==
  \A n \in DOMAIN file : \A d \in DOMAIN file[n].rows :
    IsOut(file[n].rows[d]) =>
      /\ strptime_HMS(file[n].rows[d].last) >= strptime_HMS(file[n].rows[d].first)
      /\ MinutesOf(file[n].rows[d].total)
           = WholeMinutes(file[n].rows[d].first, file[n].rows[d].last)

\* C38: a rejected record_event (CHECK_OUT with no open check-in) leaves
\* all persisted state unchanged: the sheets of the ledger file and the
\* rows of the identity side index are the same after the call as before
\* it, also when the name was never seen before.
C38_RejectedCallChangesNothing ==
  [][(/\ last'.pc = "returned" /\ last'.op = "record_event"
      /\ last'.event = "CHECK_OUT" /\ ~last'.wrote)
     => UNCHANGED <<file, user_ids_file>>]_vars

\* C39: summary coherence at quiescence: once every record_event call in
\* flight has returned, the persisted summary block of each month sheet
\* equals the rescan of that sheet's DayRecords, although record_event
\* commits the transition and the summary in two separate lock scopes.
C39_SummaryCoherentAtQuiescence ==
  (\A t \in Threads : frame[t].pc = "idle") =>
    \A n \in DOMAIN file : file[n].summary = summary_of(file[n].rows)

\* C39, the case: two threads have both gone through a call for the same
\* identity, which has checked in late and checked out with overtime, and
\* nothing is in flight.
C39_Witness ==
  /\ scenario.threads = Threads
  /\ \A t \in Threads : frame[t].pc = "idle"
  /\ \E n \in DOMAIN file : \E d \in DOMAIN file[n].rows :
       /\ IsOut(file[n].rows[d])
       /\ file[n].rows[d].status = "LATE"
       /\ file[n].summary.otDays = <<"int", 1>>

\* C40: the status map is keyed by the identity's own name: every name
\* that has a DayRecord for today, also one that contains '_' or shares its
\* first part with another name, has its own entry in get_user_status, and
\* the entry is the one of its own DayRecord.
C40_StatusKeyedByOwnName ==
  \A k \in DOMAIN file :
    find_row(file[k], clock.day) # 0 =>
      /\ k \in DOMAIN get_user_status(file, Now)
      /\ get_user_status(file, Now)[k]
           = status_entry(day_record(file, k, clock.day), Now)

====
